---- MODULE Spec2Model ----
(***************************************************************************)
(* Verification model of classbench-mapper.                                *)
(*                                                                         *)
(* Part 1: the cbreader library (src/src/cbreader.cpp): one writer thread  *)
(* editing and publishing rule-membership vectors, any number of reader    *)
(* threads sampling headers from the published vector.  Every atomic       *)
(* operation of the code (a load, a fetch_add, a fetch_sub) is one step;   *)
(* an operation on a std::vector is one step of the thread that runs it.   *)
(* A read of a vector element at an index that the writer has meanwhile    *)
(* made invalid yields any value.  The version counter stays below         *)
(* MaxVersion, so the int never wraps.                                     *)
(*                                                                         *)
(*   Spec        writer thread and NumReaders reader threads               *)
(*   WriterSpec  the writer thread alone                                   *)
(*   FairSpec    Spec with one more reader, under a fair scheduler         *)
(*   SeqSpec     the calls of Spec, one call at a time                     *)
(*   ErrSpec     Spec with the calls that return an error code             *)
(*   StuckSpec   a writer that publishes in a loop, under a fair scheduler *)
(*                                                                         *)
(* Part 2: IntegerIntervalSet (src/src/integer-interval-set.h), a sorted   *)
(* list of ranges of uintN values with N = UintBits.                       *)
(*                                                                         *)
(*   IntervalSpec  calls of remove() on the full set                       *)
(*                                                                         *)
(* Part 3: the mapping generators mapping<F>::run (src/src/mapping.h) and  *)
(* generate_mapping (src/src/util-cb-map.cpp).  A random draw is a choice  *)
(* among the values the expression of the code can return.                 *)
(*                                                                         *)
(*   GenSpec      both generators on every rule list within the bounds     *)
(*   ExampleSpec  mapping<1>::run on the rules [0,9], [5,14], [0,19]       *)
(*                                                                         *)
(* Part 4: the corpus file, written by mapping<F>::save_binary_format      *)
(* (src/src/mapping.h) and loaded by reader::read (src/src/reader.h).      *)
(*                                                                         *)
(*   ReadSpec     reader::read on every file within the bounds             *)
(***************************************************************************)
EXTENDS Integers, Sequences, FiniteSets, TLC

\* ------------------------------------------------------------------ bounds
\* Largest number of rules of a loaded corpus.
MaxRules == 2
\* Number of reader threads calling cbreader_select_headers.
NumReaders == 1
\* The writer stops publishing once the version counter reaches this value.
MaxVersion == 3
\* Largest "num_rules" argument of cbreader_prepare_rules.
MaxNum == 2
\* Largest "hdr_num" argument of cbreader_select_headers.
MaxHdr == 1

Slots   == 0 .. 2

VARIABLES
    rule_num,   \* reader::get_rule_num(): size of the corpus read by cbreader_init
    version,    \* cbreader::version
    slots,      \* slots[s]: avaialble_rules_v<s>, a sequence of rule ids
    readers,    \* readers[s]: readers_v<s>
    wpc,        \* writer: position in the running call
    wop,        \* writer: the running call
    wver,       \* writer: local "ver"
    wnum,       \* writer: argument "num_rules" of cbreader_prepare_rules
    rule_ids,   \* writer: local "rule_ids" of cbreader_prepare_rules
    data,       \* writer: output buffer "data" of cbreader_prepare_rules
    wret,       \* writer: value returned by the last finished call
    rpc,        \* rpc[r]: reader r's position in cbreader_select_headers
    rver,       \* rver[r]: local "ver" (the ticket)
    rk,         \* rk[r]: the case label the reader is at inside a switch
    hdr_num,    \* hdr_num[r]: argument "hdr_num"
    ri,         \* ri[r]: loop variable "i"
    ridx,       \* ridx[r]: local "idx" (1-based position in the vector)
    results,    \* results[r]: output buffer "results" (length = "counter")
    rret,       \* rret[r]: value returned by the last finished call
    pubIds      \* history: ids that were in the active vector of a generation
                \* at the moment that generation was published

\* IntegerIntervalSet (src/src/integer-interval-set.h), one object under test
VARIABLES
    intervals,  \* _intervals of the set: a sequence of ranges <<low, high>>
    output,     \* _intervals of the set returned by the last remove()
    low,        \* argument "low" of the last remove()
    high,       \* argument "high" of the last remove()
    calls       \* number of remove() calls made on the set

ivars == <<intervals, output, low, high, calls>>

\* The mapping generators: mapping<F>::run (src/src/mapping.h) and
\* generate_mapping (src/src/util-cb-map.cpp)
VARIABLES
    gen,        \* the generator that runs: "run" or "generate_mapping"
    F,          \* number of fields of a rule (template parameter F)
    rule_db,    \* rule_db[i][f] = <<low, high>>: field f of the rule at index i
    num,        \* "num" / "avg_flows_per_rule": headers requested per rule
    gpc,        \* phase: "fields", "fallback", "done", "abort"
    interval,   \* interval[f]: the interval set of field f
    fpos,       \* fpos[f]: loop index "i" of the field-f loop
    field_values,      \* field_values[f][i]: the values drawn for rule i
    claimed,           \* history: claimed[f][i] = the list remove() returned
    non_unqiue_field,  \* non_unqiue_field[f] / current_non_unique of field f
    non_unique, \* the set "non_unique" handed to the fallback loop
    todo,       \* the elements of "non_unique" the fallback loop has not visited
    rmap,       \* rmap[i] / (*output)[priority]: the headers of rule i
    unreachable_rules, \* counter "unreachable_rules"
    generator   \* history: the threads that advanced the static generator of
                \* random_core since the last thread start or join

mvars == <<gen, F, rule_db, num, gpc, interval, fpos, field_values, claimed,
           non_unqiue_field, non_unique, todo, rmap, unreachable_rules,
           generator>>

\* The corpus reader (src/src/reader.h) and the file it reads
VARIABLES
    src,        \* history: what wrote the file, "save_binary_format" or "corpus"
    written,    \* history: the rules and headers that were written
    file,       \* the bytes of the uncompressed stream
    offset,     \* number of bytes read so far
    rdpc,       \* position in reader::read
    rdi,        \* loop variable "i" of reader::read
    rules,      \* reader::rules: rules[i + 1][f + 1] = <<low, high>>
    field_num,  \* reader::field_num
    header_num, \* reader::header_num
    headers,    \* reader::headers
    header_matching_rule_ids,   \* reader::header_matching_rule_ids
    rule_id_to_hdr_idx          \* reader::rule_id_to_hdr_idx

kvars == <<src, written, file, offset, rdpc, rdi, rules, field_num, header_num,
           headers, header_matching_rule_ids, rule_id_to_hdr_idx>>

\* The variables outside the cbreader library.
aux == <<ivars, mvars, kvars>>

wvars == <<wpc, wop, wver, wnum, rule_ids, data, wret>>
rvars == <<rpc, rver, rk, hdr_num, ri, ridx, results, rret>>
cbvars == <<rule_num, version, slots, readers, wvars, rvars, pubIds>>
vars  == <<cbvars, aux>>

\* The ids of the loaded rules, and the reader threads.
RuleIds == 0 .. (rule_num - 1)
Readers == DOMAIN rpc

\* ------------------------------------------------------- vector helpers
SeqSet(s) == {s[i] : i \in 1 .. Len(s)}

\* A vector left in the order it has.
AsIs(s) == s

\* A vector whose duplicates are kept.
KeepDuplicates(s) == s

\* std::sort on a vector<int>: insertion of each element in ascending order.
RECURSIVE InsertSorted(_, _)
InsertSorted(x, s) ==
    IF s = <<>> THEN <<x>>
    ELSE IF x <= Head(s) THEN <<x>> \o s
    ELSE <<Head(s)>> \o InsertSorted(x, Tail(s))

RECURSIVE StdSort(_)
StdSort(s) == IF s = <<>> THEN <<>> ELSE InsertSorted(Head(s), StdSort(Tail(s)))

\* std::unique + resize: drops every element equal to its predecessor.
RECURSIVE Unique(_)
Unique(s) ==
    IF Len(s) <= 1 THEN s
    ELSE IF s[1] = s[2] THEN Unique(Tail(s))
    ELSE <<s[1]>> \o Unique(Tail(s))

\* std::shuffle: any permutation of the vector.
Perms(n) == {p \in [1 .. n -> 1 .. n] : \A i, j \in 1 .. n : p[i] = p[j] => i = j}
Shuffles(s) == {[i \in 1 .. Len(s) |-> s[p[i]]] : p \in Perms(Len(s))}

\* ------------------------------------------------------------- RuleStore
\* get_header_index(rule id): the index of the header precomputed for the
\* rule, or -1 when the rule has none.  The corpus of the model holds one
\* header per rule except for the last rule, which has none.
get_header_index(rule) == IF rule \in 0 .. (rule_num - 2) THEN rule ELSE -1

\* ------------------------------------------------- slot selection (mod 3)
\* A reader that reads the slot after the one of its ticket.
NextVec(ver) == (ver + 1) % 3
\* get_active_vec: the slot a reader holding ticket "ver" reads.
get_active_vec(ver) == ver % 3
\* A writer that is handed the slot of the version it loaded.
SameSlot(ver) == ver % 3
\* get_pending_vec, second switch: the slot handed to the writer.
PendingSlot(ver) == CASE ver % 3 = 0 -> 1 [] ver % 3 = 1 -> 2 [] OTHER -> 0
\* get_pending_vec, first switch: the counter the writer spins on.
GateSlot(ver) == CASE ver % 3 = 0 -> 0 [] ver % 3 = 1 -> 1 [] OTHER -> 2
\* acquire_active / release_active: the case label the switch jumps to.  The
\* cases hold no "break", so control falls through every later label.
FirstLabel(ver) == CASE ver % 3 = 0 -> 0 [] ver % 3 = 1 -> 1 [] OTHER -> 2
NextLabel(k) == k + 1
LastLabel == 2

\* --------------------------------------- cbreader_prepare_rules helpers
\* Lines 161-178: "tries" = 2 * num_rules random ids of a corpus of "m"
\* rules, sorted, adjacent duplicates removed; tabulated for every argument.
CandidateTable ==
    [n \in 0 .. MaxNum, m \in 1 .. MaxRules |->
        {Unique(StdSort(d)) : d \in [1 .. 2 * n -> 0 .. (m - 1)]}]

Candidates(n) == CandidateTable[n, rule_num]

\* Inner while of the marking loop: advance cursor over ids below "bound".
RECURSIVE SkipLess(_, _, _)
SkipLess(ids, cursor, bound) ==
    IF cursor <= Len(ids) /\ ids[cursor] < bound
    THEN SkipLess(ids, cursor + 1, bound)
    ELSE cursor

\* A marking loop that marks nothing.
MarkNothing(ids, pend, i, cursor) == ids

\* Lines 185-196: mark with -1 the candidates already in pending_vec.
RECURSIVE MarkPresent(_, _, _, _)
MarkPresent(ids, pend, i, cursor) ==
    IF i > Len(pend) THEN ids
    ELSE LET c == SkipLess(ids, cursor, pend[i]) IN
         IF c > Len(ids) THEN ids
         ELSE IF ids[c] = pend[i]
              THEN MarkPresent([ids EXCEPT ![c] = -1], pend, i + 1, c)
              ELSE MarkPresent(ids, pend, i + 1, c)

\* Inner while of the selection loop: advance cursor over marked entries.
RECURSIVE SkipMarked(_, _)
SkipMarked(ids, cursor) ==
    IF cursor <= Len(ids) /\ ids[cursor] = -1
    THEN SkipMarked(ids, cursor + 1)
    ELSE cursor

\* Lines 201-212: the first "n" unmarked entries, in order; "out" is the
\* sequence written to data[0 .. out-1] and pushed to pending_vec.
RECURSIVE SelectValid(_, _, _, _)
SelectValid(ids, cursor, n, out) ==
    IF Len(out) >= n THEN out
    ELSE LET c == SkipMarked(ids, cursor) IN
         IF c > Len(ids) THEN out
         ELSE SelectValid(ids, c + 1, n, Append(out, ids[c]))

\* ------------------------------------------------------------------ Init
\* cbreader_init: a corpus of "n" rules has been read, the version is 0, the
\* vectors are empty and the counters are zero; "R" is the set of threads
\* that will call cbreader_select_headers.
\* No interval set is under test.
NoIntervalSet ==
    intervals = <<>> /\ output = <<>> /\ low = 0 /\ high = 0 /\ calls = 0

\* No mapping generator runs.
NoGenerator ==
    /\ gen = "none" /\ F = 0 /\ rule_db = <<>> /\ num = 0 /\ gpc = "none"
    /\ interval = <<>> /\ fpos = <<>> /\ field_values = <<>> /\ claimed = <<>>
    /\ non_unqiue_field = <<>> /\ non_unique = {} /\ todo = {}
    /\ rmap = <<>> /\ unreachable_rules = 0 /\ generator = {}

\* No file is read.
NoFile ==
    /\ src = "none" /\ written = <<>> /\ file = <<>> /\ offset = 0
    /\ rdpc = "none" /\ rdi = 0 /\ rules = <<>> /\ field_num = 0
    /\ header_num = 0 /\ headers = <<>> /\ header_matching_rule_ids = <<>>
    /\ rule_id_to_hdr_idx = <<>>

InitWith(n, R) ==
    /\ NoIntervalSet
    /\ NoGenerator
    /\ NoFile
    /\ rule_num = n
    /\ version = 0
    /\ slots = [s \in Slots |-> <<>>]
    /\ readers = [s \in Slots |-> 0]
    /\ wpc = "idle" /\ wop = "none" /\ wver = 0 /\ wnum = 0
    /\ rule_ids = <<>> /\ data = <<>> /\ wret = 0
    /\ rpc = [r \in R |-> "idle"]
    /\ rver = [r \in R |-> 0]
    /\ rk = [r \in R |-> 0]
    /\ hdr_num = [r \in R |-> 0]
    /\ ri = [r \in R |-> 0]
    /\ ridx = [r \in R |-> 0]
    /\ results = [r \in R |-> <<>>]
    /\ rret = [r \in R |-> 0]
    /\ pubIds = {}

Init == \E n \in 1 .. MaxRules : InitWith(n, 1 .. NumReaders)

\* ------------------------------------------------------ reader: one call
\* A load that returns the value "version" had before the last increment.
StaleLoad == IF version > 0 THEN version - 1 ELSE 0

\* acquire_active, line 46: the relaxed load of "version".
AcquireLoad == version

\* cbreader_select_headers is entered (cbr is a valid handle) and
\* acquire_active loads "version" and jumps to the case label.
SelectCall(r) ==
    /\ rpc[r] = "idle"
    /\ \E n \in 0 .. MaxHdr : hdr_num' = [hdr_num EXCEPT ![r] = n]
    /\ rver' = [rver EXCEPT ![r] = AcquireLoad]
    /\ rk' = [rk EXCEPT ![r] = FirstLabel(AcquireLoad)]
    /\ rpc' = [rpc EXCEPT ![r] = "acquire"]
    /\ results' = [results EXCEPT ![r] = <<>>]
    /\ ri' = [ri EXCEPT ![r] = 0]
    /\ ridx' = [ridx EXCEPT ![r] = 0]
    /\ UNCHANGED <<aux, rule_num, version, slots, readers, wvars, rret, pubIds>>

\* acquire_active, lines 48-50: one fetch_add(1), at the current case
\* label; after the last label the function returns "ver".
AcquireStep(r) ==
    /\ rpc[r] = "acquire"
    /\ readers' = [readers EXCEPT ![rk[r]] = @ + 1]
    /\ IF rk[r] = LastLabel
       THEN /\ rpc' = [rpc EXCEPT ![r] = "size"]
            /\ rk' = [rk EXCEPT ![r] = 0]
       ELSE /\ rk' = [rk EXCEPT ![r] = NextLabel(rk[r])]
            /\ UNCHANGED rpc
    /\ UNCHANGED <<aux, rule_num, version, slots, wvars, rver, hdr_num, ri, ridx, results,
                   rret, pubIds>>

\* Lines 298-304: get_active_vec and the emptiness test.
SizeCheck(r) ==
    /\ rpc[r] = "size"
    /\ IF Len(slots[get_active_vec(rver[r])]) = 0
       THEN /\ rpc' = [rpc EXCEPT ![r] = "release"]
            /\ rk' = [rk EXCEPT ![r] = FirstLabel(rver[r])]
       ELSE /\ rpc' = [rpc EXCEPT ![r] = "pick"]
            /\ UNCHANGED rk
    /\ UNCHANGED <<aux, rule_num, version, slots, readers, wvars, rver, hdr_num, ri, ridx,
                   results, rret, pubIds>>

\* Lines 305-306: the loop test and "idx = random % size".  The size is read
\* from the vector as it is now; a vector emptied by the writer in the
\* meantime makes the remainder undefined: any index.
Pick(r) ==
    /\ rpc[r] = "pick"
    /\ IF ri[r] >= hdr_num[r]
       THEN /\ rpc' = [rpc EXCEPT ![r] = "release"]
            /\ rk' = [rk EXCEPT ![r] = FirstLabel(rver[r])]
            /\ UNCHANGED ridx
       ELSE /\ LET size == Len(slots[get_active_vec(rver[r])]) IN
               \E idx \in (IF size = 0 THEN 1 .. rule_num ELSE 1 .. size) :
                   ridx' = [ridx EXCEPT ![r] = idx]
            /\ rpc' = [rpc EXCEPT ![r] = "read"]
            /\ UNCHANGED rk
    /\ UNCHANGED <<aux, rule_num, version, slots, readers, wvars, rver, hdr_num, ri,
                   results, rret, pubIds>>

\* Line 307: "rule_idx = avaialble_rules[idx]".  An index past the end of
\* the vector (the writer shrank it since "idx" was drawn) is an out-of-bounds
\* read: any id, or the value rule_num standing for any number that is no id.
ReadValues(r) ==
    LET vec == slots[get_active_vec(rver[r])] IN
    IF ridx[r] <= Len(vec) THEN {vec[ridx[r]]} ELSE 0 .. rule_num

\* Lines 308-316: the header lookup; a rule without header is skipped, else
\* the rule id is stored in results[counter].  The lookup of a number that
\* is no rule id is undefined: skipped or stored.
HeaderFound(rule_idx) ==
    IF rule_idx \in RuleIds THEN {get_header_index(rule_idx) # -1}
    ELSE BOOLEAN

ReadRule(r) ==
    /\ rpc[r] = "read"
    /\ \E rule_idx \in ReadValues(r) : \E found \in HeaderFound(rule_idx) :
          results' = [results EXCEPT
                        ![r] = IF found THEN Append(@, rule_idx) ELSE @]
    /\ ri' = [ri EXCEPT ![r] = @ + 1]
    /\ rpc' = [rpc EXCEPT ![r] = "pick"]
    /\ UNCHANGED <<aux, rule_num, version, slots, readers, wvars, rver, rk, hdr_num, ridx,
                   rret, pubIds>>

\* release_active, lines 59-61: one fetch_sub(1), at the current case label;
\* after the last label cbreader_select_headers returns "counter" (0 on the
\* empty-vector path, where nothing was stored).
ReleaseStep(r) ==
    /\ rpc[r] = "release"
    /\ readers' = [readers EXCEPT ![rk[r]] = @ - 1]
    /\ IF rk[r] = LastLabel
       THEN /\ rpc' = [rpc EXCEPT ![r] = "idle"]
            /\ rk' = [rk EXCEPT ![r] = 0]
            /\ rret' = [rret EXCEPT ![r] = Len(results[r])]
            /\ rver' = [rver EXCEPT ![r] = 0]
            /\ hdr_num' = [hdr_num EXCEPT ![r] = 0]
            /\ ri' = [ri EXCEPT ![r] = 0]
            /\ ridx' = [ridx EXCEPT ![r] = 0]
       ELSE /\ rk' = [rk EXCEPT ![r] = NextLabel(rk[r])]
            /\ UNCHANGED <<rpc, rret, rver, hdr_num, ri, ridx>>
    /\ UNCHANGED <<aux, rule_num, version, slots, wvars, results, pubIds>>

Reader(r) ==
    \/ SelectCall(r) \/ AcquireStep(r) \/ SizeCheck(r)
    \/ Pick(r) \/ ReadRule(r) \/ ReleaseStep(r)

\* ------------------------------------------------------ writer: the calls
\* get_pending_vec, line 28: the load of "version"; the writer then spins.
EnterGate(op) ==
    /\ wpc = "idle"
    /\ wop' = op
    /\ wver' = version
    /\ wpc' = "gate"
    /\ data' = <<>>
    /\ UNCHANGED <<aux, rule_num, version, slots, readers, wret, rvars, pubIds>>

\* cbreader_prepare_rules, lines 161-180: the candidates are drawn, sorted
\* and deduplicated, then get_pending_vec is entered.
PrepareCall ==
    /\ wpc = "idle"
    /\ \E n \in 0 .. MaxNum :
          /\ wnum' = n
          /\ \E c \in Candidates(n) : rule_ids' = c
    /\ EnterGate("prepare")

\* cbreader_clear_rules, line 254, up to the load in get_pending_vec.
ClearCall ==
    /\ EnterGate("clear")
    /\ UNCHANGED <<wnum, rule_ids>>

\* cbreader_set_all_rules, line 231, up to the load in get_pending_vec.
SetAllCall ==
    /\ EnterGate("set_all")
    /\ UNCHANGED <<wnum, rule_ids>>

\* A loop that does not wait.
NoSpin(count) == TRUE

\* get_pending_vec, lines 31-33: the spin loop "while (count.load());" is
\* left when the counter reads zero.
SpinEnds(count) == count = 0

\* get_pending_vec, lines 30-40: the spin loop ends when the counter it
\* reads is zero, and the reference to the pending vector is returned.
GatePass ==
    /\ wpc = "gate"
    /\ SpinEnds(readers[GateSlot(wver)])
    /\ wpc' = "edit"
    /\ UNCHANGED <<aux, rule_num, version, slots, readers, wop, wver, wnum, rule_ids, data,
                   wret, rvars, pubIds>>

\* The writer's call returns "ret".
WriterReturn(ret) ==
    /\ wpc' = "idle"
    /\ wop' = "none"
    /\ wret' = ret
    /\ wnum' = 0
    /\ rule_ids' = <<>>

\* cbreader_prepare_rules, lines 181-216.
PrepareSelected(pending_vec) ==
    {SelectValid(sh, 1, wnum, <<>>) :
        sh \in Shuffles(MarkPresent(rule_ids, pending_vec, 1, 1))}

PrepareEdit ==
    /\ wpc = "edit" /\ wop = "prepare"
    /\ LET p == PendingSlot(wver) IN
       \E out \in PrepareSelected(slots[p]) :
          /\ slots' = [slots EXCEPT ![p] = StdSort(@ \o out)]
          /\ data' = out
          /\ WriterReturn(Len(out))
    /\ UNCHANGED <<aux, rule_num, version, readers, wver, rvars, pubIds>>

\* cbreader_set_all_rules, lines 232-238.
AllRules == [i \in 1 .. rule_num |-> i - 1]

SetAllEdit ==
    /\ wpc = "edit" /\ wop = "set_all"
    /\ slots' = [slots EXCEPT ![PendingSlot(wver)] = AllRules]
    /\ WriterReturn(0)
    /\ UNCHANGED <<aux, rule_num, version, readers, wver, data, rvars, pubIds>>

\* cbreader_clear_rules, line 254: vector::clear().
ClearEdit ==
    /\ wpc = "edit" /\ wop = "clear"
    /\ slots' = [slots EXCEPT ![PendingSlot(wver)] = <<>>]
    /\ WriterReturn(0)
    /\ UNCHANGED <<aux, rule_num, version, readers, wver, data, rvars, pubIds>>

\* cbreader_update, line 270: "ver = version.fetch_add(1) + 1".
FetchAdd == version + 1

\* The counter is kept below "max".
UpdateUpTo(max) ==
    /\ wpc = "idle"
    /\ version < max
    /\ version' = FetchAdd
    /\ wver' = FetchAdd
    /\ wop' = "update"
    /\ wpc' = "copy"
    /\ data' = <<>>
    /\ pubIds' = pubIds \cup SeqSet(slots[get_active_vec(FetchAdd)])
    /\ UNCHANGED <<aux, rule_num, slots, readers, wnum, rule_ids, wret, rvars>>

UpdateCall == UpdateUpTo(MaxVersion)

\* A copy in the opposite direction: the stale slot over the active one.
CopySlotsReversed(ver) ==
    CASE ver % 3 = 0 -> <<1, 0>> [] ver % 3 = 1 -> <<2, 1>> [] OTHER -> <<0, 2>>

\* cbreader_update, lines 272-276: the (source, target) slots of the copy.
CopySlots(ver) ==
    CASE ver % 3 = 0 -> <<0, 1>> [] ver % 3 = 1 -> <<1, 2>> [] OTHER -> <<2, 0>>

UpdateCopy ==
    /\ wpc = "copy"
    /\ LET st == CopySlots(wver) IN
       slots' = [slots EXCEPT ![st[2]] = slots[st[1]]]
    /\ WriterReturn(0)
    /\ UNCHANGED <<aux, rule_num, version, readers, wver, data, rvars, pubIds>>

Writer ==
    \/ PrepareCall \/ ClearCall \/ SetAllCall \/ GatePass
    \/ PrepareEdit \/ SetAllEdit \/ ClearEdit
    \/ UpdateCall \/ UpdateCopy

Next == Writer \/ \E r \in 1 .. NumReaders : Reader(r)

Spec == Init /\ [][Next]_vars

\* The writer thread alone (no cbreader_select_headers call is running).
WriterSpec == Init /\ [][Writer]_vars

\* Liveness: one reader thread more, so that two calls can overlap, on the
\* corpus of one rule.  Every reader thread keeps being scheduled (its next
\* step is always enabled); the writer takes a step that is enabled again
\* and again, so a spin loop whose condition is infinitely often false ends.
FairReaders == 1 .. (NumReaders + 1)

FairNext == Writer \/ \E r \in FairReaders : Reader(r)

FairSpec ==
    /\ InitWith(1, FairReaders)
    /\ [][FairNext]_vars
    /\ SF_vars(Writer)
    /\ \A r \in FairReaders : WF_vars(Reader(r))

\* Sequential use of the library: a call of the writer starts and runs only
\* while no cbreader_select_headers call is running, and the other way round.
SeqWriter == (\A r \in 1 .. NumReaders : rpc[r] = "idle") /\ Writer

SeqReader(r) == wpc = "idle" /\ Reader(r)

SeqNext == SeqWriter \/ \E r \in 1 .. NumReaders : SeqReader(r)

SeqSpec == Init /\ [][SeqNext]_vars

\* A reader that never releases: a thread enters cbreader_select_headers,
\* returns from acquire_active and takes no further step.  The writer runs
\* the loop  for (;;) { cbreader_clear_rules; cbreader_prepare_rules(n >= 1);
\* cbreader_update; }  starting at the second call (the slots are empty at
\* first).  Which call is next is read from the state: "data" holds the ids
\* of the last cbreader_prepare_rules until the next call starts, and the
\* staging slot is empty after cbreader_clear_rules and a copy of a
\* non-empty slot after cbreader_update.
StuckMaxVersion == 6

StuckReader(r) == SelectCall(r) \/ AcquireStep(r)

LoopClear == data = <<>> /\ slots[(version + 1) % 3] # <<>> /\ ClearCall

LoopPrepare ==
    data = <<>> /\ slots[(version + 1) % 3] = <<>> /\ PrepareCall /\ wnum' >= 1

LoopUpdate == data # <<>> /\ UpdateUpTo(StuckMaxVersion)

LoopWriter ==
    \/ LoopClear \/ LoopPrepare \/ LoopUpdate
    \/ GatePass \/ PrepareEdit \/ ClearEdit \/ UpdateCopy

StuckNext == LoopWriter \/ \E r \in 1 .. NumReaders : StuckReader(r)

\* Both threads keep being scheduled.
StuckSpec ==
    /\ Init
    /\ [][StuckNext]_vars
    /\ WF_vars(LoopWriter)
    /\ \A r \in 1 .. NumReaders : WF_vars(StuckReader(r))

\* ---------------------------------------------------------- error paths
\* The error codes of <cerrno> returned negated by the library.
EINVAL == 22
EAGAIN == 11

\* Largest number of cbreader_select_headers calls that end in the handler
\* of line 320.
MaxLeaks == 1

\* cbreader_select_headers, lines 308 and 320-324: the header lookup throws
\* (it may allocate); the handler returns -EAGAIN, and release_active is not
\* called on this path.
LookupThrows(r) ==
    /\ rpc[r] = "read"
    /\ readers[LastLabel] <= MaxLeaks
    /\ rpc' = [rpc EXCEPT ![r] = "idle"]
    /\ rret' = [rret EXCEPT ![r] = -EAGAIN]
    /\ rver' = [rver EXCEPT ![r] = 0]
    /\ hdr_num' = [hdr_num EXCEPT ![r] = 0]
    /\ ri' = [ri EXCEPT ![r] = 0]
    /\ ridx' = [ridx EXCEPT ![r] = 0]
    /\ UNCHANGED <<aux, rule_num, version, slots, readers, wvars, rk, results, pubIds>>

\* cbreader_select_headers, lines 293-295: cbr is NULL.
SelectNullHandle(r) ==
    /\ rpc[r] = "idle"
    /\ rret' = [rret EXCEPT ![r] = -EINVAL]
    /\ UNCHANGED <<aux, rule_num, version, slots, readers, wvars, rpc, rver, rk,
                   hdr_num, ri, ridx, results, pubIds>>

\* cbreader_select_headers called with a negative hdr_num on a valid handle:
\* only cbr is tested, so the call goes on to acquire_active.
SelectNegative(r) ==
    /\ rpc[r] = "idle"
    /\ hdr_num' = [hdr_num EXCEPT ![r] = -1]
    /\ rver' = [rver EXCEPT ![r] = AcquireLoad]
    /\ rk' = [rk EXCEPT ![r] = FirstLabel(AcquireLoad)]
    /\ rpc' = [rpc EXCEPT ![r] = "acquire"]
    /\ results' = [results EXCEPT ![r] = <<>>]
    /\ ri' = [ri EXCEPT ![r] = 0]
    /\ ridx' = [ridx EXCEPT ![r] = 0]
    /\ UNCHANGED <<aux, rule_num, version, slots, readers, wvars, rret, pubIds>>

\* A writer-side call (prepare_rules, set_all_rules, clear_rules, update,
\* search_rule) with cbr = NULL, or cbreader_prepare_rules with data = NULL.
WriterNullHandle ==
    /\ wpc = "idle"
    /\ WriterReturn(-EINVAL)
    /\ UNCHANGED <<aux, rule_num, version, slots, readers, wver, data, rvars, pubIds>>

\* cbreader_prepare_rules with a negative num_rules on a valid handle, lines
\* 161-171: "tries" is negative, rule_ids.resize(tries) throws
\* std::length_error and the handler of line 217 returns -EAGAIN.
PrepareNegative ==
    /\ wpc = "idle"
    /\ WriterReturn(-EAGAIN)
    /\ UNCHANGED <<aux, rule_num, version, slots, readers, wver, data, rvars, pubIds>>

\* cbreader_search_rule, lines 334-347: bit s is set iff slot s holds the id.
SearchMask(rule_id) ==
    (IF rule_id \in SeqSet(slots[0]) THEN 1 ELSE 0)
    + (IF rule_id \in SeqSet(slots[1]) THEN 2 ELSE 0)
    + (IF rule_id \in SeqSet(slots[2]) THEN 4 ELSE 0)

SearchRule(rule_id) ==
    /\ wpc = "idle"
    /\ WriterReturn(SearchMask(rule_id))
    /\ UNCHANGED <<aux, rule_num, version, slots, readers, wver, data, rvars, pubIds>>

\* The rule_id arguments of cbreader_search_rule: every id and one number
\* below and one above the ids.
SearchArgs == (-1) .. MaxRules

SearchCall ==
    \E rule_id \in SearchArgs : rule_id <= rule_num /\ SearchRule(rule_id)

ErrNext ==
    \/ Writer
    \/ WriterNullHandle
    \/ PrepareNegative
    \/ SearchCall
    \/ \E r \in 1 .. NumReaders :
          \/ Reader(r)
          \/ LookupThrows(r)
          \/ SelectNullHandle(r)
          \/ SelectNegative(r)

\* The library with its error paths (invalid arguments and exceptions), on
\* the corpus of one rule.
ErrSpec == InitWith(1, 1 .. NumReaders) /\ [][ErrNext]_vars

\* ==================================================================
\* Part 2: IntegerIntervalSet (src/src/integer-interval-set.h)
\* ==================================================================
\* Width of the unsigned integers of the model (uint32_t in the source), and
\* the largest of them (0xffffffff in the source).
UintBits == 5
UintMax == 2 ^ UintBits - 1

\* Unsigned arithmetic: the result of + and - modulo 2^UintBits.
Wrap(x) == x % (UintMax + 1)

\* Largest number of remove() calls made on the set under test.
MaxCalls == 2

Uint == 0 .. UintMax

Max2(a, b) == IF a >= b THEN a ELSE b
Min2(a, b) == IF a <= b THEN a ELSE b

\* std::list::insert(position, x) with "position" the iterator at index
\* "at": x is placed before the element at that index.
InsertAt(ivs, at, x) ==
    SubSeq(ivs, 1, at - 1) \o <<x>> \o SubSeq(ivs, at, Len(ivs))

\* remove(), lines 84-85: "position = it; insert(++position, ...)".
InsertBehind(ivs, it, x) == InsertAt(ivs, it + 1, x)

\* std::list::erase(it).
EraseAt(ivs, it) == SubSeq(ivs, 1, it - 1) \o SubSeq(ivs, it + 1, Len(ivs))

\* A lower part that keeps the value "min".
KeepMin(min) == min

\* remove(), line 89: "r.high = min - 1" in unsigned arithmetic.
LowerPartHigh(min) == Wrap(min - 1)

\* A test that never erases the current range.
NeverErased(min, rhigh, rlow) == FALSE

\* remove(), line 90: "min == 0 || r.high < r.low".
Erased(min, rhigh, rlow) == min = 0 \/ rhigh < rlow

\* remove(), lines 64-98: the loop, from the iterator at index "it" (index
\* Len + 1 is end()).  After "it = erase(it); --it" the increment of the for
\* statement leaves the iterator on the element that followed the erased
\* one; when the erased element was the first, "--it" steps in front of
\* begin(), which the circular list of the standard library maps to end(),
\* and the increment then yields begin().  The result is the pair of the
\* list left in the set and the list of the returned set.
RECURSIVE RemoveLoop(_, _, _, _, _, _)
RemoveLoop(ivs, it, left_cursor, right_cursor, maximum, out) ==
    IF it > Len(ivs) THEN <<ivs, out>>
    ELSE LET r == ivs[it] IN
         IF r[2] < left_cursor
         THEN RemoveLoop(ivs, it + 1, left_cursor, right_cursor, maximum, out)
         ELSE IF right_cursor < r[1] THEN <<ivs, out>>
         ELSE LET min  == Max2(left_cursor, r[1])
                  max0 == Min2(right_cursor, r[2])
                  max  == IF max0 > maximum THEN maximum ELSE max0
                  out1 == Append(out, <<min, max>>)
                  ivs1 == IF max < r[2]
                          THEN InsertBehind(ivs, it, <<Wrap(max + 1), r[2]>>)
                          ELSE ivs
                  rhigh == LowerPartHigh(min)
                  erased == Erased(min, rhigh, r[1])
                  ivs2 == IF erased THEN EraseAt(ivs1, it)
                          ELSE [ivs1 EXCEPT ![it] = <<r[1], rhigh>>]
                  next == IF erased THEN it ELSE it + 1
              IN IF right_cursor > maximum THEN <<ivs2, out1>>
                 ELSE RemoveLoop(ivs2, next, Wrap(max + 1), right_cursor,
                                 maximum, out1)

\* IntegerIntervalSet::remove(low, high), lines 56-101.
remove(ivs, lo, hi) == RemoveLoop(ivs, 1, lo, hi, hi, <<>>)

\* IntegerIntervalSet(0, 0xffffffff), lines 44-47.
FullSet == << <<0, UintMax>> >>

\* One call of remove() on the set under test.
RemoveCall ==
    /\ calls < MaxCalls
    /\ \E lo \in Uint : \E hi \in lo .. UintMax :
          LET res == remove(intervals, lo, hi) IN
          /\ intervals' = res[1]
          /\ output' = res[2]
          /\ low' = lo
          /\ high' = hi
    /\ calls' = calls + 1
    /\ UNCHANGED <<cbvars, mvars, kvars>>

\* No cbreader handle exists (no thread calls the library).
NoLibrary ==
    /\ rule_num = 1
    /\ version = 0
    /\ slots = [s \in Slots |-> <<>>]
    /\ readers = [s \in Slots |-> 0]
    /\ wpc = "idle" /\ wop = "none" /\ wver = 0 /\ wnum = 0
    /\ rule_ids = <<>> /\ data = <<>> /\ wret = 0
    /\ rpc = <<>> /\ rver = <<>> /\ rk = <<>> /\ hdr_num = <<>>
    /\ ri = <<>> /\ ridx = <<>> /\ results = <<>> /\ rret = <<>>
    /\ pubIds = {}

IntervalInit ==
    /\ intervals = FullSet /\ output = <<>> /\ low = 0 /\ high = 0 /\ calls = 0
    /\ NoLibrary
    /\ NoGenerator
    /\ NoFile

\* One IntegerIntervalSet(0, 0xffffffff) and a sequence of remove() calls.
IntervalSpec == IntervalInit /\ [][RemoveCall]_vars

\* ==================================================================
\* Part 3: the mapping generators, mapping<F>::run (src/src/mapping.h) and
\* generate_mapping (src/src/util-cb-map.cpp).  Rules and fields are numbered
\* from 0 as in the source.
\* ==================================================================
\* Largest number of rules of a rule list, largest number of fields, and
\* largest number of fields of all rules of a list together.
MaxDbRules == 3
MaxFields == 2
MaxCells == 4
\* Largest bound of a field range of a generated rule list.
FieldMax == 2
\* Largest number of headers requested per rule.
MaxHeaders == 1

\* mapping<F>::TRIES, and the "tries" argument passed by generate_mapping.
TRIES == 5
InRuleTries == 5
\* The ip-proto values forced into field 0 by util-cb-map.cpp.
UDP == 17
TCP == 6
ICMP == 1

\* gen_uniform_random_uint32(low, high): the possible results.  The random
\* number is reduced modulo high - low, so "high" itself is never drawn.
gen_uniform_random_uint32(lo, hi) ==
    IF lo = hi THEN {lo}
    ELSE {Wrap(k + lo) : k \in 0 .. (Wrap(hi - lo) - 1)}

\* random_core::random_uint32(low, high): the possible results.
random_uint32(lo, hi) ==
    IF lo = hi THEN {lo}
    ELSE {Wrap(k + lo) : k \in 0 .. (Wrap(hi - lo) - 1)}

\* Faulty draws: any value of the type, and the value behind the range.
AnyValue(ivs) == Uint

DrawBeyond(sub, lo, hi) == {Wrap(hi + 1)}

\* IntegerIntervalSet::random_value(): the possible results.
random_value(ivs) ==
    IF Len(ivs) = 0 THEN {0}
    ELSE UNION {gen_uniform_random_uint32(ivs[x + 1][1], ivs[x + 1][2]) :
                   x \in gen_uniform_random_uint32(0, Len(ivs) - 1)}

\* IntegerIntervalSet::contains(value).
contains(ivs, value) ==
    \E k \in 1 .. Len(ivs) : value >= ivs[k][1] /\ value <= ivs[k][2]

RuleIdx == DOMAIN rule_db
FieldIdx == 0 .. (F - 1)
RuleCount == Cardinality(DOMAIN rule_db)

\* hdr_matches_rule(rule_db, rule_idx, hdr).
hdr_matches_rule(db, rule_idx, hdr) ==
    \A j \in FieldIdx :
        ~(hdr[j] < db[rule_idx][j][1] \/ hdr[j] > db[rule_idx][j][2])

\* A header of zeros: the value of a vector element made by resize().
ZeroHeader == [j \in FieldIdx |-> 0]

\* The range test made on each drawn value (mapping.h:58, util-cb-map.cpp:106).
DrawInRange(rule_idx, hdr) ==
    \A j \in FieldIdx :
        ~(hdr[j] < rule_db[rule_idx][j][1] \/ hdr[j] > rule_db[rule_idx][j][2])

\* The packets whose field j holds one of the values draw[j].
Packets(draw) ==
    {h \in [FieldIdx -> UNION {draw[j] : j \in FieldIdx}] :
        \A j \in FieldIdx : h[j] \in draw[j]}

\* The results <<valid, packet>> of a retry loop of "tries" attempts over the
\* packets "draws", of which the packets "matching" set previous_match.  An
\* attempt draws a packet: a packet with a field outside the range of the
\* rule ends the loop with "false"; a packet that sets previous_match leads
\* to the next attempt; any other packet is returned with "true".  The loop
\* returns "false" after "tries" rejected packets.  A packet that is not
\* valid is never used and is recorded as the header of zeros.
Attempts(draws, rule_idx, matching, tries) ==
    LET accepted == {d \in draws : DrawInRange(rule_idx, d) /\ d \notin matching}
        outside  == {d \in draws : ~DrawInRange(rule_idx, d)}
        rejected == {d \in draws : DrawInRange(rule_idx, d) /\ d \in matching}
    IN IF tries <= 0 THEN {<<FALSE, ZeroHeader>>}
       ELSE {<<TRUE, h>> : h \in accepted}
            \cup (IF outside # {} \/ rejected # {}
                  THEN {<<FALSE, ZeroHeader>>} ELSE {})

\* mapping<F>::gen_packet, lines 47-77.  The loop over r compares the packet
\* with rule "rule_idx" itself, for r = 0 .. rule_idx - 2.
gen_packet(rule_idx) ==
    LET draw == [j \in FieldIdx |->
                    random_uint32(rule_db[rule_idx][j][1], rule_db[rule_idx][j][2])]
        draws == Packets(draw)
        previous_match ==
            {h \in draws : \E r \in 0 .. (rule_idx - 2) :
                              hdr_matches_rule(rule_db, rule_idx, h)}
    IN Attempts(draws, rule_idx, previous_match, TRIES)

\* util-cb-map.cpp, lines 97-105 and 228-234: the ip-proto value forced into
\* field 0 when the range [lo, hi] holds it, else the value drawn.
ForcedProto(lo, hi, v) ==
    IF lo <= UDP /\ hi >= UDP THEN UDP
    ELSE IF lo <= TCP /\ hi >= TCP THEN TCP
    ELSE IF lo <= ICMP /\ hi >= ICMP THEN ICMP
    ELSE v

\* gen_packet_in_rule, lines 83-145.  The loop over r compares the packet
\* with the rules r = 0 .. rule_idx - 2.
gen_packet_in_rule(rule_idx, tries) ==
    LET draw == [j \in FieldIdx |->
                    LET lo == rule_db[rule_idx][j][1]
                        hi == rule_db[rule_idx][j][2]
                    IN IF j = 0
                       THEN {ForcedProto(lo, hi, v) :
                                v \in gen_uniform_random_uint32(lo, hi)}
                       ELSE gen_uniform_random_uint32(lo, hi)]
        draws == Packets(draw)
        previous_match ==
            {h \in draws : \E r \in 0 .. (rule_idx - 2) :
                              hdr_matches_rule(rule_db, r, h)}
    IN Attempts(draws, rule_idx, previous_match, tries)

\* The field ranges of the generated rule lists: low <= high.
Ranges == {rg \in (0 .. FieldMax) \X (0 .. FieldMax) : rg[1] <= rg[2]}

\* The generator "g" is entered with a list "db" of rules of "nf" fields and
\* "k" headers per rule (mapping.h:156-161, util-cb-map.cpp:157-167).
GenStart(g, nf, db, k) ==
    /\ gen = g /\ F = nf /\ rule_db = db /\ num = k
    /\ gpc = "fields"
    /\ interval = [f \in 0 .. (nf - 1) |-> FullSet]
    /\ fpos = [f \in 0 .. (nf - 1) |-> 0]
    /\ field_values = [f \in 0 .. (nf - 1) |-> [i \in DOMAIN db |-> <<>>]]
    /\ claimed = [f \in 0 .. (nf - 1) |-> [i \in DOMAIN db |-> <<>>]]
    /\ non_unqiue_field = [f \in 0 .. (nf - 1) |-> {}]
    /\ non_unique = {} /\ todo = {}
    /\ rmap = [i \in DOMAIN db |-> [j \in 1 .. k |-> [f \in 0 .. (nf - 1) |-> 0]]]
    /\ unreachable_rules = 0
    /\ generator = {}
    /\ NoLibrary
    /\ NoIntervalSet
    /\ NoFile

GenInit ==
    \E g \in {"run", "generate_mapping"} :
    \E nf \in 1 .. MaxFields : \E n \in 1 .. MaxDbRules :
        /\ n * nf <= MaxCells
        /\ \E db \in [0 .. (n - 1) -> [0 .. (nf - 1) -> Ranges]] :
           \E k \in 0 .. MaxHeaders : GenStart(g, nf, db, k)

\* util-cb-map.cpp, lines 211-238: field 0 of generate_mapping.  The values
\* stored for the rule, and whether the rule stays guaranteed in the field.
ProtoValues(sub, lo, hi, vals) ==
    IF contains(sub, UDP) THEN [k \in DOMAIN vals |-> UDP]
    ELSE IF contains(sub, TCP) THEN [k \in DOMAIN vals |-> TCP]
    ELSE IF contains(sub, ICMP) THEN [k \in DOMAIN vals |-> ICMP]
    ELSE [k \in DOMAIN vals |-> ForcedProto(lo, hi, vals[k])]

ProtoGuarantee(sub) ==
    contains(sub, UDP) \/ contains(sub, TCP) \/ contains(sub, ICMP)

\* The values drawn for one rule in one field: from the claimed list when it
\* is not empty, else from the range of the rule (mapping.h:106-110,
\* util-cb-map.cpp:195-207).
FieldDraws(sub, lo, hi) ==
    IF Len(sub) > 0 THEN random_value(sub) ELSE random_uint32(lo, hi)

\* The threads: run() starts one std::thread per field (mapping.h:164-172),
\* numbered here by the field; the calling thread is numbered F.
\* generate_mapping runs in the calling thread.
MainThread == F

Thread(f) == IF gen = "run" THEN f ELSE MainThread

\* A draw for a rule with claim "sub" and range [lo, hi] calls
\* random_core::random_uint32(), which advances the static generator
\* (random.h:17-29), unless every range it draws from has low = high
\* (random.h:34, integer-interval-set.h:12).
Advances(sub, lo, hi) ==
    IF Len(sub) > 1 THEN TRUE
    ELSE IF Len(sub) = 1 THEN sub[1][1] # sub[1][2]
    ELSE lo # hi

\* One iteration of the loop over the rules in field f: mapping.h:94-118 in
\* the thread of field f, util-cb-map.cpp:182-246 in the loop over f, where
\* field f starts when the fields before it are finished.
ProcessField(f) ==
    /\ gpc = "fields"
    /\ f \in FieldIdx
    /\ fpos[f] < RuleCount
    /\ gen = "generate_mapping" => \A g \in 0 .. (f - 1) : fpos[g] = RuleCount
    /\ LET i   == fpos[f]
           lo  == rule_db[i][f][1]
           hi  == rule_db[i][f][2]
           res == remove(interval[f], lo, hi)
           sub == res[2]
           proto == gen = "generate_mapping" /\ f = 0
           can_guarantee == Len(sub) > 0 /\ (proto => ProtoGuarantee(sub))
       IN /\ interval' = [interval EXCEPT ![f] = res[1]]
          /\ claimed' = [claimed EXCEPT ![f][i] = sub]
          /\ non_unqiue_field' =
                IF can_guarantee THEN non_unqiue_field
                ELSE [non_unqiue_field EXCEPT ![f] = @ \cup {i}]
          /\ \E vals \in [1 .. num -> FieldDraws(sub, lo, hi)] :
                LET out == IF proto THEN ProtoValues(sub, lo, hi, vals) ELSE vals
                IN /\ field_values' = [field_values EXCEPT ![f][i] = out]
                   /\ rmap' = IF gen = "generate_mapping"
                              THEN [rmap EXCEPT ![i] =
                                      [k \in 1 .. num |->
                                          [rmap[i][k] EXCEPT ![f] = out[k]]]]
                              ELSE rmap
          /\ fpos' = [fpos EXCEPT ![f] = i + 1]
          /\ generator' = IF num > 0 /\ Advances(sub, lo, hi)
                           THEN generator \cup {Thread(f)} ELSE generator
    /\ UNCHANGED <<cbvars, ivars, kvars, gen, F, rule_db, num, gpc, non_unique, todo,
                   unreachable_rules>>

\* mapping.h:180-206: join, intersection of the per-field sets, and the copy
\* of the field values of the rules outside the intersection.
\* util-cb-map.cpp:248-258: the intersection, taken field after field.
Reduce ==
    /\ gpc = "fields"
    /\ \A f \in FieldIdx : fpos[f] = RuleCount
    /\ LET nu == {i \in RuleIdx : \A f \in FieldIdx : i \in non_unqiue_field[f]}
       IN /\ non_unique' = nu
          /\ todo' = nu
          /\ rmap' = IF gen = "run"
                     THEN [i \in RuleIdx |->
                             IF i \in nu THEN rmap[i]
                             ELSE [k \in 1 .. num |->
                                     [f \in FieldIdx |-> field_values[f][i][k]]]]
                     ELSE rmap
    /\ gpc' = "fallback"
    /\ generator' = {}
    /\ UNCHANGED <<cbvars, ivars, kvars, gen, F, rule_db, num, interval, fpos,
                   field_values, claimed, non_unqiue_field, unreachable_rules>>

\* The element the loop "for (auto idx : non_unique)" visits next.
NextIdx == CHOOSE i \in todo : \A j \in todo : i <= j

\* One iteration of the loop over non_unique: mapping.h:214-223 (the packet
\* is pushed behind the headers the vector holds), util-cb-map.cpp:270-284
\* (the vector is cleared first).
FallbackStep ==
    /\ gpc = "fallback"
    /\ todo # {}
    /\ LET idx == NextIdx IN
       \E oc \in (IF gen = "run" THEN gen_packet(idx)
                  ELSE gen_packet_in_rule(idx, InRuleTries)) :
          /\ rmap' = [rmap EXCEPT ![idx] =
                        (IF gen = "run" THEN @ ELSE <<>>)
                        \o (IF oc[1] THEN <<oc[2]>> ELSE <<>>)]
          /\ unreachable_rules' =
                IF oc[1] THEN unreachable_rules ELSE unreachable_rules + 1
          /\ todo' = todo \ {idx}
          /\ generator' = IF \E j \in FieldIdx : Advances(<<>>, rule_db[idx][j][1], rule_db[idx][j][2])
                           THEN generator \cup {MainThread} ELSE generator
    /\ UNCHANGED <<cbvars, ivars, kvars, gen, F, rule_db, num, gpc, interval, fpos,
                   field_values, claimed, non_unqiue_field, non_unique>>

\* mapping.h:231-243: every stored header is compared with its own rule;
\* exit(1) on the first one outside, else run() returns.
Verify ==
    /\ gpc = "fallback" /\ todo = {} /\ gen = "run"
    /\ gpc' = IF \A i \in RuleIdx : \A k \in 1 .. Len(rmap[i]) :
                    hdr_matches_rule(rule_db, i, rmap[i][k])
              THEN "done" ELSE "abort"
    /\ UNCHANGED <<cbvars, ivars, kvars, gen, F, rule_db, num, interval, fpos,
                   field_values, claimed, non_unqiue_field, non_unique, todo,
                   rmap, unreachable_rules, generator>>

\* util-cb-map.cpp:291: generate_mapping returns the mapping.
Return ==
    /\ gpc = "fallback" /\ todo = {} /\ gen = "generate_mapping"
    /\ gpc' = "done"
    /\ UNCHANGED <<cbvars, ivars, kvars, gen, F, rule_db, num, interval, fpos,
                   field_values, claimed, non_unqiue_field, non_unique, todo,
                   rmap, unreachable_rules, generator>>

GenNext ==
    \/ \E f \in 0 .. (MaxFields - 1) : ProcessField(f)
    \/ Reduce
    \/ FallbackStep
    \/ Verify
    \/ Return

\* One run of one of the two generators on a rule list.
GenSpec == GenInit /\ [][GenNext]_vars

\* The rule list of the end-to-end example: one field, three rules.
ExampleDb ==
    [i \in 0 .. 2 |->
        [f \in {0} |-> CASE i = 0 -> <<0, 9>> [] i = 1 -> <<5, 14>> [] OTHER -> <<0, 19>>]]

\* The steps of mapping<F>::run.
RunNext == ProcessField(0) \/ Reduce \/ FallbackStep \/ Verify

\* mapping<1>::run on the three rules of the example, in each priority
\* order; the order of the example is one of them.
ExampleSpec ==
    /\ \E p \in Perms(3) :
       \E k \in 0 .. MaxHeaders :
          GenStart("run", 1, [i \in 0 .. 2 |-> ExampleDb[p[i + 1] - 1]], k)
    /\ [][RunNext]_vars

\* ==================================================================
\* Claims about the versioned membership buffer
\* ==================================================================
\* The slot the specification calls active / staging for generation v.
ActiveOf(v)  == v % 3
StagingOf(v) == (v + 1) % 3

\* Reader r is between the return of acquire_active and the call of
\* release_active: it reads the vector of its ticket.
Reading(r) == rpc[r] \in {"size", "pick", "read"}
\* Reader r has loaded a ticket and has not finished releasing it.
InCall(r) == rpc[r] \in {"acquire", "size", "pick", "read", "release"}

\* The writer's step stores into the pending vector (an edit of
\* cbreader_prepare_rules / clear_rules / set_all_rules) or into the copy
\* target of cbreader_update.
EditStep == wpc = "edit" /\ wpc' = "idle"
CopyStep == wpc = "copy" /\ wpc' = "idle"

\* C1: the membership vector a cbreader_select_headers call reads between
\* its acquire and its release is never modified during that interval.
AtomicPublish ==
    [][\A r \in Readers :
          (Reading(r) /\ Reading(r)')
             => slots'[ActiveOf(rver[r])] = slots[ActiveOf(rver[r])]]_vars

\* C2: whenever the writer overwrites a slot (an edit of the staging slot,
\* or the copy into slot (V_new+1) mod 3 made by cbreader_update), the
\* reference count of that slot is zero.
ReclamationInvariant ==
    [][(EditStep \/ CopyStep) => readers[StagingOf(version)] = 0]_vars

\* C3: get_pending_vec returns slot (V+1) mod 3 for the V it loaded, and it
\* returns only when the reference count of that same slot is zero.
StageWaitsForStagingSlot ==
    [][(wpc = "gate" /\ wpc' = "edit")
          => /\ PendingSlot(wver) = StagingOf(wver)
             /\ readers[StagingOf(wver)] = 0]_vars

\* C4: acquire_active increments by exactly one the reference count of slot
\* V mod 3 for the V it loaded, leaves the two other counts unchanged, and
\* returns (one increment, then the return with ticket V).
AcquireExactlyOne ==
    [][\A r \in Readers :
          (rpc[r] = "acquire" /\ readers' # readers)
             => /\ readers' = [readers EXCEPT ![ActiveOf(rver[r])] = @ + 1]
                /\ rpc'[r] = "size"]_vars

\* C5: every reference count is non-negative, and the count of slot s is
\* zero whenever no reader is inside a call with a ticket that maps to s.
RefCountsMatchTickets ==
    \A s \in Slots :
        /\ readers[s] >= 0
        /\ (\A r \in Readers : ~(InCall(r) /\ ActiveOf(rver[r]) = s))
              => readers[s] = 0

\* C6: cbreader_update increments V by exactly one in one step (and nothing
\* else changes V); when it returns, the new staging slot (V_new+1) mod 3
\* holds a copy of the newly active slot V_new mod 3, which it left as it was.
PublishCopies ==
    [][/\ (version' # version
             => wpc = "idle" /\ wpc' = "copy" /\ version' = version + 1)
       /\ ((wpc = "idle" /\ wpc' = "copy") => version' = version + 1)
       /\ (CopyStep
             => /\ slots'[StagingOf(version)] = slots[ActiveOf(version)]
                /\ slots'[ActiveOf(version)] = slots[ActiveOf(version)])]_vars

\* C6 witness: two publishes have returned; the second seeded slot 0 with
\* the two ids published in slot 2, while slot 1 still holds generation 1.
PublishCopiesWitness ==
    /\ wpc = "idle" /\ version = 2
    /\ slots[2] = <<0, 1>> /\ slots[0] = <<0, 1>> /\ slots[1] = <<0>>

\* The generation installed by the last cbreader_update that has returned
\* (generation 0 before the first one).
Installed == IF wpc = "copy" THEN version - 1 ELSE version

\* C7: V never decreases, and an acquire_active that loads V after a publish
\* has returned gets a ticket at least as large as the generation installed.
PublishAcquireOrder ==
    [][/\ version' >= version
       /\ \A r \in Readers :
             (rpc[r] = "idle" /\ rpc'[r] = "acquire")
                => rver'[r] >= Installed]_vars

\* C7 witness: a reader has loaded its ticket after two publishes returned.
PublishAcquireOrderWitness ==
    \E r \in Readers :
        rpc[r] = "acquire" /\ wpc = "idle" /\ version = 2 /\ rver[r] = 2

\* C8: every rule id stored in "results" by cbreader_select_headers was in
\* the active vector of a generation that was already published.
StagedEditsInvisible ==
    \A r \in Readers : SeqSet(results[r]) \subseteq pubIds

\* C9: cbreader_prepare_rules returns k with 0 <= k <= num_rules; data holds
\* k pairwise distinct rule ids, each absent from the staging slot before the
\* call and present in it after the call.
PrepareContract ==
    [][(EditStep /\ wop = "prepare")
          => LET before == SeqSet(slots[StagingOf(version)])
                 after  == SeqSet(slots'[StagingOf(version)])
             IN /\ wret' >= 0 /\ wret' <= wnum
                /\ Len(data') = wret'
                /\ \A i, j \in 1 .. Len(data') :
                      data'[i] = data'[j] => i = j
                /\ \A i \in 1 .. Len(data') :
                      /\ data'[i] \in RuleIds
                      /\ data'[i] \notin before
                      /\ data'[i] \in after]_vars

\* C9 witness: a call reported id 1 after adding it to a staging slot that
\* already held id 0.
PrepareContractWitness ==
    /\ wpc = "idle" /\ wret = 1 /\ data = <<1>>
    /\ slots[StagingOf(version)] = <<0, 1>>

\* C10: every call of get_pending_vec eventually returns.
StageTerminates == (wpc = "gate") ~> (wpc = "edit")

\* The step at which a cbreader_select_headers call of reader r returns
\* through release_active.
SelectReturn(r) == rpc[r] = "release" /\ rpc'[r] = "idle"

ReleaseOnEveryPath ==
    (\A r \in Readers : rpc[r] = "idle") => \A s \in Slots : readers[s] = 0

\* C13: a call with a null handle, a null output buffer or an out-of-range
\* argument returns -EINVAL and leaves V, the slots and the reference counts
\* unchanged.
InvalidArgument ==
    [][/\ (WriterNullHandle \/ PrepareNegative
             \/ \E id \in {-1, rule_num} : SearchRule(id))
          => wret' = -EINVAL /\ UNCHANGED <<version, slots, readers>>
       /\ \A r \in Readers :
             /\ SelectNullHandle(r)
                   => rret'[r] = -EINVAL /\ UNCHANGED <<version, slots, readers>>
             /\ (InCall(r) /\ hdr_num[r] < 0)
                   => /\ readers' = readers
                      /\ SelectReturn(r) => rret'[r] = -EINVAL]_vars

\* ==================================================================
\* Claims about IntegerIntervalSet
\* ==================================================================
\* The values contained in a list of ranges.
Contents(ivs) == UNION {ivs[i][1] .. ivs[i][2] : i \in 1 .. Len(ivs)}

\* C17: remove(low, high) with low <= high returns exactly the intersection
\* of [low, high] with the contents before the call, and leaves in the set
\* exactly the contents before the call minus [low, high].
RemoveExact ==
    [][calls' = calls + 1
          => /\ Contents(output') = Contents(intervals) \cap (low' .. high')
             /\ Contents(intervals') = Contents(intervals) \ (low' .. high')]_vars

\* C17 witness: after remove(4, 9), the call remove(0, 0xffffffff) spanned
\* the two stored ranges, touched both bounds and consumed both ranges.
RemoveExactWitness ==
    /\ calls = 2 /\ low = 0 /\ high = UintMax
    /\ output = << <<0, 3>>, <<10, UintMax>> >>
    /\ intervals = <<>>

\* The list is sorted ascending, its ranges are non-empty and disjoint.
OrderedDisjoint(ivs) ==
    /\ \A i \in 1 .. Len(ivs) : ivs[i][1] <= ivs[i][2]
    /\ \A i, j \in 1 .. Len(ivs) : i < j => ivs[i][2] < ivs[j][1]

\* C18: from IntegerIntervalSet(0, 0xffffffff), after every remove() the
\* stored list is sorted, every range is non-empty, the ranges are pairwise
\* disjoint, and the set of contained values did not grow.
RemoveKeepsOrder ==
    [][/\ OrderedDisjoint(intervals')
       /\ Contents(intervals') \subseteq Contents(intervals)]_vars

\* C18 witness: two calls inside the range left three stored ranges.
RemoveKeepsOrderWitness ==
    /\ calls = 2
    /\ intervals = << <<0, 3>>, <<10, 19>>, <<25, UintMax>> >>

\* ==================================================================
\* Claims about the mapping generators
\* ==================================================================
\* The headers the generator emitted for rule i: the headers assembled from
\* the field values, or the header accepted by the fallback (in run() it
\* stands behind the "num" headers the vector held before).
Emitted(i) ==
    IF gen = "run" /\ i \in non_unique
    THEN SubSeq(rmap[i], num + 1, Len(rmap[i]))
    ELSE rmap[i]

\* C14: every header emitted for the rule at index i, assembled or accepted
\* by gen_packet / gen_packet_in_rule, matches no rule at an index j < i.
FirstMatch ==
    gpc = "done"
       => \A i \in RuleIdx : \A k \in 1 .. Len(Emitted(i)) :
             \A j \in 0 .. (i - 1) : ~hdr_matches_rule(rule_db, j, Emitted(i)[k])

\* C15: every header of the mapping a generator produced lies, in each
\* field, inside the range of its rule.
Containment ==
    gpc = "done"
       => \A i \in RuleIdx : \A k \in 1 .. Len(rmap[i]) : \A f \in FieldIdx :
             /\ rule_db[i][f][1] <= rmap[i][k][f]
             /\ rmap[i][k][f] <= rule_db[i][f][2]

\* C15 witness: generate_mapping returned a mapping with headers for two
\* rules of two fields.
ContainmentWitness ==
    /\ gpc = "done" /\ gen = "generate_mapping" /\ F = 2
    /\ \A i \in RuleIdx : Len(rmap[i]) = 1
    /\ RuleCount = 2

\* C16: in mapping<F>::run, when the claim of rule i in field f is not
\* empty, every header of rule i holds in field f a value of the claimed
\* list, which is outside the field-f range of every rule j < i.
ClaimedValues ==
    (gen = "run" /\ gpc # "fields")
       => \A f \in FieldIdx : \A i \in RuleIdx :
             Len(claimed[f][i]) > 0
                => \A k \in 1 .. Len(rmap[i]) :
                      /\ contains(claimed[f][i], rmap[i][k][f])
                      /\ \A j \in 0 .. (i - 1) :
                            \/ rmap[i][k][f] < rule_db[j][f][1]
                            \/ rmap[i][k][f] > rule_db[j][f][2]

\* C16 witness: rule 1 claimed in field 0 a part of its range only, the rest
\* being claimed by rule 0, and holds a header.
ClaimedValuesWitness ==
    /\ gen = "run" /\ gpc = "done" /\ RuleCount >= 2
    /\ rule_db[0][0] = <<0, 1>> /\ rule_db[1][0] = <<0, 2>>
    /\ claimed[0][1] = << <<2, 2>> >>
    /\ Len(rmap[1]) = 1 /\ rmap[1][1][0] = 2

\* C19 as stated: in the example, rule 0 claims exactly [0,9], rule 1
\* exactly [10,14] and rule 2 nothing; rule 2 is recorded as unresolved and
\* is the one rule handed to the fallback.
ExampleClaims ==
    rule_db = ExampleDb
       => /\ fpos[0] > 0 => claimed[0][0] = << <<0, 9>> >>
          /\ fpos[0] > 1 => claimed[0][1] = << <<10, 14>> >>
          /\ fpos[0] > 2 => claimed[0][2] = <<>> /\ non_unqiue_field[0] = {2}
          /\ gpc # "fields" => non_unique = {2}

\* C19, amended: in the example, rule 0 claims exactly [0,9], rule 1 exactly
\* [10,14] and rule 2 exactly [15,19], the part of [0,19] that rules 0 and 1
\* leave; no rule is recorded as unresolved and none is handed to the
\* fallback.
ExampleClaimsAmended ==
    rule_db = ExampleDb
       => /\ fpos[0] > 0 => claimed[0][0] = << <<0, 9>> >>
          /\ fpos[0] > 1 => claimed[0][1] = << <<10, 14>> >>
          /\ fpos[0] > 2 => claimed[0][2] = << <<15, 19>> >>
          /\ non_unqiue_field[0] = {}
          /\ non_unique = {} /\ todo = {} /\ unreachable_rules = 0

\* C19 witness: the run on the example has returned; each rule holds a
\* header drawn from its claim.
ExampleClaimsWitness ==
    /\ rule_db = ExampleDb /\ gpc = "done" /\ fpos[0] = 3 /\ num = 1
    /\ rmap[0][1][0] \in 0 .. 9
    /\ rmap[1][1][0] \in 10 .. 14
    /\ rmap[2][1][0] \in 15 .. 19

\* C20: for a non-unique rule of mapping<F>::run the placeholder headers are
\* discarded: the rule ends with one accepted header or with none, a rule
\* without header is counted once as unreachable, and the run does not end
\* in a fatal error.
FallbackOutcome ==
    (gen = "run" /\ gpc \in {"done", "abort"})
       => /\ gpc = "done"
          /\ \A i \in non_unique : Len(rmap[i]) <= 1
          /\ unreachable_rules = Cardinality({i \in non_unique : Len(rmap[i]) = 0})

\* ==================================================================
\* Further claims about the versioned membership buffer
\* ==================================================================
\* A step of the writer inside cbreader_prepare_rules, cbreader_clear_rules
\* or cbreader_set_all_rules.
EditCalls == {"prepare", "clear", "set_all"}

EditCallStep == wvars' # wvars /\ (wop \in EditCalls \/ wop' \in EditCalls)

\* C22: no step of cbreader_prepare_rules, cbreader_clear_rules or
\* cbreader_set_all_rules changes V, the active slot V mod 3, the third slot
\* (V+2) mod 3 or any of the three reference counts.
EditsTouchStagingOnly ==
    [][EditCallStep
          => /\ version' = version
             /\ slots'[ActiveOf(version)] = slots[ActiveOf(version)]
             /\ slots'[(version + 2) % 3] = slots[(version + 2) % 3]
             /\ readers' = readers]_vars

\* C22 witness: at generation 1, while a reader holds a ticket,
\* cbreader_prepare_rules has added id 1 to the staging slot 2; the active
\* slot 1 and the third slot 0 are as they were.
EditsTouchStagingOnlyWitness ==
    /\ wpc = "idle" /\ version = 1 /\ wret = 1 /\ data = <<1>>
    /\ slots[1] = <<0>> /\ slots[2] = <<0, 1>> /\ slots[0] = <<>>
    /\ readers[1] = 1

\* A vector of rule ids in strictly ascending order.
Ascending(s) == \A i \in 1 .. (Len(s) - 1) : s[i] < s[i + 1]

\* C23: each of the three slots is sorted in ascending order, holds no
\* duplicate id, and holds only ids in [0, rule_count).
SlotsAreSets ==
    \A s \in Slots : Ascending(slots[s]) /\ SeqSet(slots[s]) \subseteq RuleIds

\* C23 witness: after two prepare calls and a publish the staging slot holds
\* the ids 0 and 1 in order, the id 1 having been added first.
SlotsAreSetsWitness ==
    /\ wpc = "idle" /\ version = 1 /\ slots[0] = <<>>
    /\ slots[1] = <<1>> /\ slots[2] = <<0, 1>> /\ data = <<0>>

\* C30: cbreader_prepare_rules removes no id from the staging slot; after a
\* call that returns k >= 0 the staging set is the set before the call plus
\* the k reported ids, and its size has grown by exactly k.
PrepareOnlyAdds ==
    [][(EditStep /\ wop = "prepare" /\ wret' >= 0)
          => LET before == SeqSet(slots[StagingOf(version)])
                 after  == SeqSet(slots'[StagingOf(version)])
             IN /\ before \subseteq after
                /\ after = before \cup SeqSet(data')
                /\ Cardinality(after) = Cardinality(before) + wret'
                /\ Len(slots'[StagingOf(version)])
                      = Len(slots[StagingOf(version)]) + wret']_vars

\* C30 witness: a call returned 2 after adding the ids 0 and 1 to an empty
\* staging slot.
PrepareOnlyAddsWitness ==
    /\ wpc = "idle" /\ wret = 2 /\ SeqSet(data) = {0, 1}
    /\ slots[StagingOf(version)] = <<0, 1>> /\ version = 0

\* ==================================================================
\* Further claims about the mapping generators
\* ==================================================================
\* The rules whose claim in field f is empty, among the rules the loop of
\* field f has processed.
EmptyClaim(f) == {i \in 0 .. (fpos[f] - 1) : Len(claimed[f][i]) = 0}

\* C24: a rule is recorded as unresolved for field f exactly when its claim
\* in field f is empty, and the set handed to the fallback is exactly the
\* set of the rules whose claim is empty in every field.
UnresolvedIsEmptyClaim ==
    gen \in {"run", "generate_mapping"}
       => /\ \A f \in FieldIdx : non_unqiue_field[f] = EmptyClaim(f)
          /\ gpc # "fields"
                => non_unique = {i \in RuleIdx : \A f \in FieldIdx : i \in EmptyClaim(f)}

\* C25: for every rule list with low <= high in every field and every
\* requested header count, the verification phase of mapping<F>::run finds
\* every stored header inside its own rule: exit(1) is never reached.
VerificationPasses == gen = "run" => gpc # "abort"

\* ==================================================================
\* Further claims about the interval set
\* ==================================================================
\* The results random_value() is claimed to have on the list "ivs": 0 on the
\* empty list, else every value of every interval.
SampleClaim(ivs) == IF Len(ivs) = 0 THEN {0} ELSE Contents(ivs)

\* C27: random_value returns 0 on an empty set; on a set of k >= 1 intervals
\* each interval can be the one selected, and every value of the selected
\* interval, from its low bound to its high bound, is a possible result.
SampleReachesAll ==
    /\ random_value(intervals) = SampleClaim(intervals)
    /\ random_value(output) = SampleClaim(output)

\* ==================================================================
\* Further claims about the versioned membership buffer (liveness)
\* ==================================================================
\* C29: when a reader has acquired a ticket and never releases it, the
\* writer that loops over stage, edit and publish makes finitely many
\* publishes and then stays in get_pending_vec for ever.  (Behaviours in
\* which the reader was still outside or inside acquire_active when the
\* version counter came within three publishes of StuckMaxVersion end at
\* the bound of the model and are left out.)
StuckReaderBlocksWriter ==
    \/ <>[](wpc = "gate")
    \/ <>(/\ version >= StuckMaxVersion - 3
          /\ \E r \in 1 .. NumReaders : rpc[r] \in {"idle", "acquire"})

\* C29 witness: the reader holds ticket 1 (counts of the slots 1 and 2),
\* the writer has published generation 2 since and spins in the
\* get_pending_vec of its next call.
StuckReaderBlocksWriterWitness ==
    /\ wpc = "gate" /\ wver = 2 /\ version = 2
    /\ \E r \in 1 .. NumReaders : rpc[r] = "size" /\ rver[r] = 1
    /\ readers = [s \in Slots |-> IF s = 0 THEN 0 ELSE 1]

\* C26: in mapping<F>::run the reduction starts only after all F workers
\* have terminated, and while the workers run no memory location is written
\* by two threads: each worker writes its own unresolved set, value table
\* and status cell only.
WorkersShareNothing ==
    gen = "run"
       => /\ gpc # "fields" => \A f \in FieldIdx : fpos[f] = RuleCount
          /\ Cardinality(generator) <= 1

\* ==================================================================
\* Part 4: the corpus file.  mapping<F>::save_binary_format
\* (src/src/mapping.h) writes it through zstream (src/src/zstream.h), and
\* reader::read (src/src/reader.h) loads it.  The file is the sequence of
\* the bytes that gzwrite is given; rules, fields and headers are numbered
\* from 0 in the source and stored here at position number + 1.
\* ==================================================================
\* Largest number of rules of a file, of rules times fields, of headers, of
\* rule ids listed with a header, and the largest value of a field.
MaxFileRules == 2
MaxFileCells == 2
MaxFileHeaders == 2
MaxMatches == 2
ValueMax == 1

\* zstream::operator<<(uint32_t): the four bytes of the value in memory
\* order (least significant first).
U32(x) ==
    <<x % 256, (x \div 256) % 256, (x \div 65536) % 256, (x \div 16777216) % 256>>

\* zstream::operator<<(const char *): the characters "ruledb" and "packetdb".
RuleDbMagic == <<114, 117, 108, 101, 100, 98>>
PacketDbMagic == <<112, 97, 99, 107, 101, 116, 100, 98>>

\* The bytes of a sequence of byte sequences, in order.
RECURSIVE Concat(_)
Concat(ss) == IF ss = <<>> THEN <<>> ELSE Head(ss) \o Concat(Tail(ss))

\* mapping<F>::save_binary_format, lines 274-316, for the rule list "db"
\* (db[i].priority, db[i].fields[f] = <<low, high>>) of "nf" fields and the
\* mapping "map" (map[i]: the headers stored under the key i - 1, in the
\* ascending key order of std::map).
save_binary_format(db, nf, map) ==
    LET rule_bytes(i) ==
            U32(db[i].priority)
            \o Concat([f \in 1 .. nf |->
                          U32(db[i].fields[f][1]) \o U32(db[i].fields[f][2])])
        hdr_bytes(i, k) ==
            Concat([f \in 1 .. nf |-> U32(map[i][k][f])]) \o U32(i - 1)
        count == Len(Concat([i \in 1 .. Len(map) |-> map[i]]))
    IN RuleDbMagic \o U32(Len(db)) \o U32(nf)
       \o Concat([i \in 1 .. Len(db) |-> rule_bytes(i)])
       \o PacketDbMagic \o U32(count)
       \o Concat([i \in 1 .. Len(map) |->
                     Concat([k \in 1 .. Len(map[i]) |-> hdr_bytes(i, k)])])

\* The rules and headers that save_binary_format is given, as the record a
\* loaded file is compared with: one header per (rule, header) pair with
\* the key of the rule as its matching rule id.
SavedContent(db, nf, map) ==
    [nf    |-> nf,
     rules |-> [i \in 1 .. Len(db) |-> db[i].fields],
     hdrs  |-> Concat([i \in 1 .. Len(map) |->
                         [k \in 1 .. Len(map[i]) |->
                             [fields |-> map[i][k], ids |-> <<i - 1>>]]])]

\* A file in the layout that reader::read parses (reader.h:36-108): "ruledb",
\* rule count, field count, per rule the (low, high) pairs; "packetdb",
\* header count, per header the field values, the number of matching rule
\* ids and the ids.
CorpusFile(c) ==
    RuleDbMagic \o U32(Len(c.rules)) \o U32(c.nf)
    \o Concat([i \in 1 .. Len(c.rules) |->
                  Concat([f \in 1 .. c.nf |->
                             U32(c.rules[i][f][1]) \o U32(c.rules[i][f][2])])])
    \o PacketDbMagic \o U32(Len(c.hdrs))
    \o Concat([j \in 1 .. Len(c.hdrs) |->
                  Concat([f \in 1 .. c.nf |-> U32(c.hdrs[j].fields[f])])
                  \o U32(Len(c.hdrs[j].ids))
                  \o Concat([k \in 1 .. Len(c.hdrs[j].ids) |->
                                U32(c.hdrs[j].ids[k])])])

\* The ranges and the sequences of the generated files.
FileRanges == {rg \in (0 .. ValueMax) \X (0 .. ValueMax) : rg[1] <= rg[2]}

SeqsUpTo(S, n) == UNION {[1 .. k -> S] : k \in 0 .. n}

\* zstream::read_u32 at byte "at" of the file (all four bytes are there).
Word(at) ==
    file[at + 1] + 256 * file[at + 2] + 65536 * file[at + 3]
    + 16777216 * file[at + 4]

\* The characters of a buffer up to the first zero byte ("str = buffer").
RECURSIVE CString(_)
CString(b) ==
    IF b = <<>> \/ Head(b) = 0 THEN <<>> ELSE <<Head(b)>> \o CString(Tail(b))

\* zstream::read_string(length) at byte "at": gzread into a zeroed buffer.
read_string(at, length) ==
    CString(SubSeq(file, at + 1, Min2(at + length, Len(file))))

\* reader::read_rule, lines 36-46, at byte "at".
read_rule(at) ==
    [f \in 1 .. field_num |-> <<Word(at + 8 * (f - 1)), Word(at + 8 * (f - 1) + 4)>>]

\* reader::read_header, lines 68-71, for one rule id: the vector of the id
\* is created when missing, and "rule_idx" is pushed to it.
PushId(map, rule_idx) ==
    [r \in DOMAIN map \cup {rule_idx} |->
        IF r = rule_idx
        THEN Append(IF rule_idx \in DOMAIN map THEN map[rule_idx] ELSE <<>>, rule_idx)
        ELSE map[r]]

RECURSIVE PushIds(_, _)
PushIds(map, ids) ==
    IF ids = <<>> THEN map ELSE PushIds(PushId(map, Head(ids)), Tail(ids))

\* reader::get_header_indices, lines 164-171.
get_header_indices(matching_rule_id) ==
    IF matching_rule_id \in DOMAIN rule_id_to_hdr_idx
    THEN rule_id_to_hdr_idx[matching_rule_id] ELSE <<>>

\* reader::read ends at "pc": "throw" (errorf), "eof" (a read past the end
\* of the file, whose values are indeterminate) or "crash".
ReadStops(pc) ==
    /\ rdpc' = pc
    /\ UNCHANGED <<offset, rdi, rules, field_num, header_num, headers,
                   header_matching_rule_ids, rule_id_to_hdr_idx>>

\* reader::read, lines 82-90: the first magic, the rule count and the field
\* count.
ReadOpen ==
    /\ rdpc = "open"
    /\ IF read_string(offset, 6) # RuleDbMagic THEN ReadStops("throw")
       ELSE IF offset + 14 > Len(file) THEN ReadStops("eof")
       ELSE /\ rules' = [i \in 1 .. Word(offset + 6) |-> <<>>]
            /\ field_num' = Word(offset + 10)
            /\ offset' = offset + 14
            /\ rdpc' = "rules"
            /\ rdi' = 0
            /\ UNCHANGED <<header_num, headers, header_matching_rule_ids,
                           rule_id_to_hdr_idx>>
    /\ UNCHANGED <<cbvars, ivars, mvars, src, written, file>>

\* reader::read, lines 92-94: one iteration of the loop over the rules.
ReadRule_ ==
    /\ rdpc = "rules"
    /\ rdi < Len(rules)
    /\ IF offset + 8 * field_num > Len(file) THEN ReadStops("eof")
       ELSE /\ rules' = [rules EXCEPT ![rdi + 1] = read_rule(offset)]
            /\ offset' = offset + 8 * field_num
            /\ rdi' = rdi + 1
            /\ UNCHANGED <<rdpc, field_num, header_num, headers,
                           header_matching_rule_ids, rule_id_to_hdr_idx>>
    /\ UNCHANGED <<cbvars, ivars, mvars, src, written, file>>

\* reader::read, lines 96-102: the second magic and the header count.
ReadPacketDb ==
    /\ rdpc = "rules"
    /\ rdi = Len(rules)
    /\ IF read_string(offset, 8) # PacketDbMagic THEN ReadStops("throw")
       ELSE IF offset + 12 > Len(file) THEN ReadStops("eof")
       ELSE /\ header_num' = Word(offset + 8)
            /\ headers' = [j \in 1 .. Word(offset + 8) |-> <<>>]
            /\ header_matching_rule_ids' = [j \in 1 .. Word(offset + 8) |-> <<>>]
            /\ offset' = offset + 12
            /\ rdpc' = "headers"
            /\ rdi' = 0
            /\ UNCHANGED <<rules, field_num, rule_id_to_hdr_idx>>
    /\ UNCHANGED <<cbvars, ivars, mvars, src, written, file>>

\* reader::read, lines 104-106, and read_header, lines 53-73: one header.
\* headers[idx] was made by resize() and holds no element, so the store
\* "headers[idx][i] = ..." of line 59 is outside the vector: the process
\* ends there, or the value is kept as element i of the header.
ReadHeader ==
    /\ rdpc = "headers"
    /\ rdi < header_num
    /\ LET ids_at == offset + 4 * field_num IN
       IF ids_at + 4 > Len(file) THEN ReadStops("eof")
       ELSE IF ids_at + 4 + 4 * Word(ids_at) > Len(file) THEN ReadStops("eof")
       ELSE \E stored \in (IF field_num > 0 THEN BOOLEAN ELSE {TRUE}) :
               IF ~stored THEN ReadStops("crash")
               ELSE LET hdr == [i \in 1 .. field_num |-> Word(offset + 4 * (i - 1))]
                        idx_num == Word(ids_at)
                        ids == [i \in 1 .. idx_num |-> Word(ids_at + 4 * i)]
                    IN /\ headers' = [headers EXCEPT ![rdi + 1] = hdr]
                       /\ header_matching_rule_ids' =
                             [header_matching_rule_ids EXCEPT ![rdi + 1] = ids]
                       /\ rule_id_to_hdr_idx' = PushIds(rule_id_to_hdr_idx, ids)
                       /\ offset' = ids_at + 4 + 4 * idx_num
                       /\ rdi' = rdi + 1
                       /\ UNCHANGED <<rdpc, rules, field_num, header_num>>
    /\ UNCHANGED <<cbvars, ivars, mvars, src, written, file>>

\* reader::read returns.
ReadReturn ==
    /\ rdpc = "headers"
    /\ rdi = header_num
    /\ rdpc' = "done"
    /\ UNCHANGED <<cbvars, ivars, mvars, src, written, file, offset, rdi, rules,
                   field_num, header_num, headers, header_matching_rule_ids,
                   rule_id_to_hdr_idx>>

ReadNext == ReadOpen \/ ReadRule_ \/ ReadPacketDb \/ ReadHeader \/ ReadReturn

\* reader::read is called on the file "bytes", written by "by" from "c".
ReadStart(by, c, bytes) ==
    /\ src = by /\ written = c /\ file = bytes
    /\ offset = 0 /\ rdpc = "open" /\ rdi = 0
    /\ rules = <<>> /\ field_num = 0 /\ header_num = 0
    /\ headers = <<>> /\ header_matching_rule_ids = <<>>
    /\ rule_id_to_hdr_idx = <<>>
    /\ NoLibrary /\ NoIntervalSet /\ NoGenerator

\* The files of a corpus: up to MaxFileRules rules of 0 or more fields and
\* up to MaxFileHeaders headers, each with the ids of the rules it matches.
CorpusInit ==
    \E n \in 1 .. MaxFileRules : \E nf \in 0 .. MaxFileCells :
       /\ n * nf <= MaxFileCells
       /\ \E rs \in [1 .. n -> [1 .. nf -> FileRanges]] :
          \E hs \in SeqsUpTo([fields : [1 .. nf -> 0 .. ValueMax],
                              ids : SeqsUpTo(0 .. (n - 1), MaxMatches)],
                             MaxFileHeaders) :
             LET c == [nf |-> nf, rules |-> rs, hdrs |-> hs]
             IN ReadStart("corpus", c, CorpusFile(c))

\* The files that save_binary_format writes for a rule list and a mapping
\* that holds up to MaxFileHeaders headers in all.
SavedInit ==
    \E n \in 1 .. MaxFileRules : \E nf \in 1 .. MaxFileCells :
       /\ n * nf <= MaxFileCells
       /\ \E db \in [1 .. n -> [priority : 0 .. ValueMax,
                                fields : [1 .. nf -> FileRanges]]] :
          \E map \in [1 .. n -> SeqsUpTo([1 .. nf -> 0 .. ValueMax], MaxFileHeaders)] :
             /\ Len(Concat(map)) <= MaxFileHeaders
             /\ ReadStart("save_binary_format", SavedContent(db, nf, map),
                          save_binary_format(db, nf, map))

ReadSpec == (CorpusInit \/ SavedInit) /\ [][ReadNext]_vars

\* ==================================================================
\* Claims about the corpus file
\* ==================================================================
\* C21: after reader::read, for every loaded header index idx and every
\* rule id r the header matches, the lookup for r contains idx; and every
\* index the lookup returns for r is a header index whose header matches r.
LookupMatchesHeaders ==
    rdpc = "done"
       => /\ \A idx \in 0 .. (header_num - 1) :
                \A k \in 1 .. Len(header_matching_rule_ids[idx + 1]) :
                   idx \in SeqSet(get_header_indices(header_matching_rule_ids[idx + 1][k]))
          /\ \A r \in DOMAIN rule_id_to_hdr_idx :
                \A x \in SeqSet(get_header_indices(r)) :
                   /\ x \in 0 .. (header_num - 1)
                   /\ r \in SeqSet(header_matching_rule_ids[x + 1])

\* C28: reader::read of the file written by save_binary_format ends with
\* the same rule count and field count, the same (low, high) pairs of every
\* rule, the same header count, and for every header the same field values
\* and the same matching rule id.
RoundTrip ==
    (src = "save_binary_format" /\ rdpc \in {"done", "throw", "eof", "crash"})
       => /\ rdpc = "done"
          /\ Len(rules) = Len(written.rules)
          /\ field_num = written.nf
          /\ rules = written.rules
          /\ header_num = Len(written.hdrs)
          /\ \A j \in 1 .. Len(written.hdrs) :
                /\ headers[j] = written.hdrs[j].fields
                /\ header_matching_rule_ids[j] = written.hdrs[j].ids

====
